---- MODULE Spec2Model ----
(***************************************************************************)
(* Model of src/LegalAnalyser.js: the fetch wrapper apiFetch, the request  *)
(* builders analyzeCase / getGraph and the React hooks useAnalyze and      *)
(* useGraph, run on the JavaScript event loop against an HTTP transport.   *)
(***************************************************************************)
EXTENDS Integers, Sequences, FiniteSets, TLC

(***************************************************************************)
(* Bounds of the model.                                                    *)
(***************************************************************************)
\* number of hook calls (analyze / fetchGraph invocations) in one behaviour
MaxCalls == 2
\* largest number of reasoning_trace steps in a backend result
MaxTrace == 2

(***************************************************************************)
(* JavaScript values, tagged by type.                                      *)
(***************************************************************************)
Undefined == [t |-> "undefined"]
Null      == [t |-> "null"]
Str(s)    == [t |-> "string", v |-> s]
Num(n)    == [t |-> "number", v |-> n]
Arr(q)    == [t |-> "array",  v |-> q]
Obj(f)    == [t |-> "object", v |-> f]

\* ToBoolean, as the || of line 17 applies it
Truthy(x) ==
    CASE x.t = "undefined" -> FALSE
      [] x.t = "null"      -> FALSE
      [] x.t = "string"    -> x.v # ""
      [] x.t = "number"    -> x.v # 0
      [] OTHER             -> TRUE

\* property read x[key] on a non-nullish value
Get(x, key) ==
    IF x.t = "object" /\ key \in DOMAIN x.v THEN x.v[key] ELSE Undefined

\* ToString, as new Error(x) applies it to its argument
ToStr(x) ==
    CASE x.t = "string" -> x.v
      [] x.t = "number" -> ToString(x.v)
      [] x.t = "array"  -> IF Len(x.v) = 0 THEN "" ELSE "[object Object]"
      [] OTHER          -> "[object Object]"

(***************************************************************************)
(* JSON text on the wire.  A body is either the JSON text of a value or    *)
(* some other text.                                                        *)
(***************************************************************************)
JsonText(x) == [json |-> TRUE, v |-> x]
RawText(s)  == [json |-> FALSE, v |-> Str(s)]
NoBody      == RawText("")

\* JSON.stringify of an object: members whose value is undefined are left out
JSONstringify(x) ==
    IF x.t = "object"
    THEN JsonText(Obj([k \in {j \in DOMAIN x.v : x.v[j] # Undefined} |-> x.v[k]]))
    ELSE JsonText(x)

SyntaxErrorMessage == "Unexpected token < in JSON at position 0"
TypeErrorMessage   == "Cannot read properties of null (reading 'detail')"
NetworkErrorMessage == "Failed to fetch"

\* Response.json(): the parsed value, or a rejection with a SyntaxError
ResJson(body) ==
    IF body.json THEN [ok |-> TRUE, value |-> body.v]
    ELSE [ok |-> FALSE, message |-> SyntaxErrorMessage]

\* encodeURIComponent on the section ids of the model
encodeURIComponent(s) ==
    CASE s = "IPC 417" -> "IPC%20417"
      [] OTHER         -> s

(***************************************************************************)
(* The outcome of a promise.                                               *)
(***************************************************************************)
Resolved(x) == [ok |-> TRUE,  value |-> x, message |-> ""]
Rejected(m) == [ok |-> FALSE, value |-> Undefined, message |-> m]

\* res.ok read as "the status is not below 200"
ResOkNoUpperBound(res) == res.status >= 200

\* res.ok: the status is in the range 200-299
ResOk(res) == res.status \in 200..299

\* what fetch() settles with
NetworkFailure == [kind |-> "reject", status |-> 0, statusText |-> "", body |-> NoBody]
Response(st, txt, b) == [kind |-> "response", status |-> st, statusText |-> txt, body |-> b]

\* apiFetch with line 17 as throw new Error(err.detail): no "HTTP <status>"
apiFetchNoStatusFallback(res) ==
    IF res.kind = "reject" THEN Rejected(NetworkErrorMessage)
    ELSE IF ~ResOk(res)
    THEN LET parsed == ResJson(res.body)
             err    == IF parsed.ok THEN parsed.value
                       ELSE Obj([detail |-> Str(res.statusText)])
         IN  IF err.t \in {"null", "undefined"} THEN Rejected(TypeErrorMessage)
             ELSE IF Get(err, "detail") = Undefined THEN Rejected("")
             ELSE Rejected(ToStr(Get(err, "detail")))
    ELSE LET parsed == ResJson(res.body)
         IN  IF parsed.ok THEN Resolved(parsed.value) ELSE Rejected(parsed.message)

\* apiFetch without the res.ok check of lines 15-18
apiFetchNoOkCheck(res) ==
    IF res.kind = "reject" THEN Rejected(NetworkErrorMessage)
    ELSE LET parsed == ResJson(res.body)
         IN  IF parsed.ok THEN Resolved(parsed.value) ELSE Rejected(parsed.message)

\* apiFetch, from the value fetch settled with to the outcome of its promise
apiFetch(res) ==
    IF res.kind = "reject" THEN Rejected(NetworkErrorMessage)
    ELSE IF ~ResOk(res)
    THEN LET parsed == ResJson(res.body)
             err    == IF parsed.ok THEN parsed.value
                       ELSE Obj([detail |-> Str(res.statusText)])
         IN  IF err.t \in {"null", "undefined"} THEN Rejected(TypeErrorMessage)
             ELSE IF Truthy(Get(err, "detail")) THEN Rejected(ToStr(Get(err, "detail")))
             ELSE Rejected("HTTP " \o ToString(res.status))
    ELSE LET parsed == ResJson(res.body)
         IN  IF parsed.ok THEN Resolved(parsed.value) ELSE Rejected(parsed.message)

\* analyzeCase without the default values of its parameters
analyzeCaseNoDefault(caseDescription, state, category) ==
    [method |-> "POST", path |-> <<"/analyze">>,
     body |-> JSONstringify(Obj([case_description |-> caseDescription,
                                 state |-> state, category |-> category]))]

\* analyzeCase: the request it hands to apiFetch, default parameters applied
analyzeCase(caseDescription, state, category) ==
    LET st  == IF state = Undefined THEN Str("All India") ELSE state
        cat == IF category = Undefined THEN Null ELSE category
    IN  [method |-> "POST", path |-> <<"/analyze">>,
         body |-> JSONstringify(Obj([case_description |-> caseDescription,
                                     state |-> st, category |-> cat]))]

\* getGraph: the request it hands to apiFetch
getGraph(sectionId) ==
    [method |-> "GET", path |-> <<"/graph/", encodeURIComponent(sectionId)>>,
     body |-> NoBody]

(***************************************************************************)
(* The backend behind BASE_URL (main.py, not part of the client source),   *)
(* as the specification describes it, and the transport in front of it.    *)
(***************************************************************************)
\* the results of the model: <<confidence_score in hundredths, trace length>>
Results   == {<<0, 1>>, <<100, MaxTrace>>}
StepTypes        == <<"match", "aggregate", "plan", "synthesize">>

ReasoningStep(k) ==
    Obj([step |-> Num(k), type |-> Str(StepTypes[((k - 1) % 4) + 1])])

AnalysisResult(d, conf, n) ==
    Obj([case_description |-> d,
         reasoning_trace  |-> Arr([k \in 1..n |-> ReasoningStep(k)]),
         confidence_score |-> Num(conf)])

ErrorBody(detail) == JsonText(Obj([detail |-> Str(detail)]))

decodeURIComponent(s) ==
    CASE s = "IPC%20417" -> "IPC 417"
      [] OTHER           -> s

\* POST /analyze
BackendAnalyze(req) ==
    LET d == Get(req.body.v, "case_description")
    IN  IF d.t # "string" \/ d.v = ""
        THEN {Response(422, "Unprocessable Entity",
                       ErrorBody("case_description must not be empty"))}
        ELSE {Response(200, "OK", JsonText(AnalysisResult(d, r[1], r[2]))) :
                  r \in Results}
             \cup {Response(503, "Service Unavailable", ErrorBody("StoreUnavailable"))}

\* GET /graph/{sectionId}
BackendGraph(req) ==
    {Response(200, "OK",
              JsonText(Obj([nodes |-> Arr(<<>>), edges |-> Arr(<<>>),
                            root |-> Str(decodeURIComponent(req.path[2]))]))),
     Response(404, "Not Found", ErrorBody("NotFound"))}

Backend(req) ==
    IF req.path[1] = "/analyze" THEN BackendAnalyze(req) ELSE BackendGraph(req)

\* what the network and the intermediaries between client and backend can
\* make of a request: no response at all, or a response of their own
TransportFaults ==
    {NetworkFailure,
     Response(502, "Bad Gateway", RawText("<html>502</html>")),
     Response(500, "Internal Server Error", JsonText(Obj(<<>>))),
     Response(200, "OK", RawText("<html>login</html>"))}

\* everything fetch(req) can settle with
Fetch(req) == Backend(req) \cup TransportFaults

(***************************************************************************)
(* The hooks.  Each of useAnalyze and useGraph holds data (graphData),     *)
(* loading and error; calls is the list of analyze / fetchGraph calls made *)
(* so far, in the order they were started.                                 *)
(***************************************************************************)
VARIABLES data, loading, error, calls, afterReset

vars == <<data, loading, error, calls, afterReset>>

Hooks == {"useAnalyze", "useGraph"}

\* the arguments a component calls analyze with, and fetchGraph with
AnalyzeArgs ==
    {<<Str(""), Undefined, Undefined>>,
     <<Str("neighbour cheated me"), Undefined, Undefined>>,
     <<Str("neighbour cheated me"), Undefined, Str("Civil")>>,
     <<Str("neighbour cheated me"), Str("Maharashtra"), Str("Civil")>>}
SectionIds == {"IPC_417", "IPC 417"}

NoArgs     == <<Undefined, Undefined, Undefined>>
NoRequest  == [method |-> "", path |-> <<>>, body |-> NoBody]
NoResponse == [kind |-> "none", status |-> 0, statusText |-> "", body |-> NoBody]
NoOutcome  == [ok |-> FALSE, value |-> Undefined, message |-> "pending"]

\* a call that has run up to its await
NewCall(h, a, req) ==
    [hook |-> h, args |-> a, req |-> req, pc |-> "fetching",
     res |-> NoResponse, out |-> NoOutcome,
     ret |-> Undefined, threw |-> FALSE, errorSets |-> 0]

\* a call that has returned: its arguments, request and response are gone
\* with its frame; what stays is what it settled with and what it returned
Returned(c, r) ==
    [c EXCEPT !.pc = "done", !.args = NoArgs, !.req = NoRequest, !.res = NoResponse,
              !.ret = r.ret, !.threw = r.threw, !.errorSets = r.errorSets]

\* analyze, lines 86-87 and 89: what the hook state is when the call awaits
analyzeStart(l, e) == [loading |-> TRUE, error |-> Null]

\* analyze whose catch also clears data
analyzeSettleClearsData(out, d, e) ==
    IF out.ok
    THEN [data |-> out.value, error |-> e, loading |-> FALSE,
          ret |-> out.value, threw |-> FALSE, errorSets |-> 0]
    ELSE [data |-> Null, error |-> Str(out.message), loading |-> FALSE,
          ret |-> Null, threw |-> FALSE, errorSets |-> 1]

\* analyze with setLoading(false) at the end of try instead of in finally
analyzeSettleNoFinally(out, d, e) ==
    IF out.ok
    THEN [data |-> out.value, error |-> e, loading |-> FALSE,
          ret |-> out.value, threw |-> FALSE, errorSets |-> 0]
    ELSE [data |-> d, error |-> Str(out.message), loading |-> TRUE,
          ret |-> Null, threw |-> FALSE, errorSets |-> 1]

\* analyze, lines 90-97: try / catch / finally once analyzeCase has settled
analyzeSettle(out, d, e) ==
    IF out.ok
    THEN [data |-> out.value, error |-> e, loading |-> FALSE,
          ret |-> out.value, threw |-> FALSE, errorSets |-> 0]
    ELSE [data |-> d, error |-> Str(out.message), loading |-> FALSE,
          ret |-> Null, threw |-> FALSE, errorSets |-> 1]

\* fetchGraph, lines 120-121 and 123
fetchGraphStart(l, e) == [loading |-> TRUE, error |-> Null]

\* fetchGraph, lines 124-131
fetchGraphSettle(out, d, e) ==
    IF out.ok
    THEN [data |-> out.value, error |-> e, loading |-> FALSE,
          ret |-> out.value, threw |-> FALSE, errorSets |-> 0]
    ELSE [data |-> d, error |-> Str(out.message), loading |-> FALSE,
          ret |-> Null, threw |-> FALSE, errorSets |-> 1]

\* reset, lines 101-102
resetState(d, e) == [data |-> Null, error |-> Null]

Init ==
    /\ data = [h \in Hooks |-> Null]
    /\ loading = [h \in Hooks |-> FALSE]
    /\ error = [h \in Hooks |-> Null]
    /\ calls = <<>>
    /\ afterReset = FALSE

\* The event loop runs the continuations that are ready (microtasks) before
\* it takes the next event (a user's call, a network event).
MicrotasksDone == \A i \in 1..Len(calls) : calls[i].pc # "settled"

\* a component calls analyze(caseDescription, state, category)
Analyze(d, s, c) ==
    /\ Len(calls) < MaxCalls
    /\ MicrotasksDone
    /\ LET st == analyzeStart(loading["useAnalyze"], error["useAnalyze"])
       IN  /\ loading' = [loading EXCEPT !["useAnalyze"] = st.loading]
           /\ error' = [error EXCEPT !["useAnalyze"] = st.error]
    /\ calls' = Append(calls, NewCall("useAnalyze", <<d, s, c>>, analyzeCase(d, s, c)))
    /\ afterReset' = FALSE
    /\ UNCHANGED data

\* a component calls fetchGraph(sectionId)
FetchGraph(id) ==
    /\ Len(calls) < MaxCalls
    /\ MicrotasksDone
    /\ LET st == fetchGraphStart(loading["useGraph"], error["useGraph"])
       IN  /\ loading' = [loading EXCEPT !["useGraph"] = st.loading]
           /\ error' = [error EXCEPT !["useGraph"] = st.error]
    /\ calls' = Append(calls, NewCall("useGraph", <<Str(id), Undefined, Undefined>>,
                                      getGraph(id)))
    /\ UNCHANGED <<data, afterReset>>

\* fetch settles and apiFetch runs to its end: fetch rejects, or it resolves
\* with a response whose body res.json() reads.  Nothing outside the call
\* reads what apiFetch holds between its two awaits, so they are one step.
FetchSettles(i, res) ==
    /\ MicrotasksDone
    /\ calls[i].pc = "fetching"
    /\ res \in Fetch(calls[i].req)
    /\ calls' = [calls EXCEPT ![i].res = res, ![i].pc = "settled",
                              ![i].out = apiFetch(res)]
    /\ UNCHANGED <<data, loading, error, afterReset>>

\* the hook's continuation after its await: try / catch / finally
Continue(i) ==
    /\ calls[i].pc = "settled"
    /\ LET h == calls[i].hook
           r == IF h = "useAnalyze"
                THEN analyzeSettle(calls[i].out, data[h], error[h])
                ELSE fetchGraphSettle(calls[i].out, data[h], error[h])
       IN  /\ data' = [data EXCEPT ![h] = r.data]
           /\ error' = [error EXCEPT ![h] = r.error]
           /\ loading' = [loading EXCEPT ![h] = r.loading]
           /\ calls' = [calls EXCEPT ![i] = Returned(calls[i], r)]
    /\ UNCHANGED afterReset

\* a component calls reset()
Reset ==
    /\ MicrotasksDone
    /\ LET r == resetState(data["useAnalyze"], error["useAnalyze"])
       IN  /\ data' = [data EXCEPT !["useAnalyze"] = r.data]
           /\ error' = [error EXCEPT !["useAnalyze"] = r.error]
    /\ afterReset' = TRUE
    /\ UNCHANGED <<loading, calls>>

Next ==
    \/ \E a \in AnalyzeArgs : Analyze(a[1], a[2], a[3])
    \/ \E id \in SectionIds : FetchGraph(id)
    \/ \E i \in {j \in 1..Len(calls) : calls[j].pc = "fetching"} :
           \E res \in Fetch(calls[i].req) : FetchSettles(i, res)
    \/ \E i \in 1..Len(calls) : Continue(i)
    \/ Reset

Spec == Init /\ [][Next]_vars

\* The event loop always runs a continuation that is ready.
FairSpec == Spec /\ \A i \in 1..MaxCalls : WF_vars(i <= Len(calls) /\ Continue(i))

(***************************************************************************)
(* Vocabulary of the properties.                                           *)
(***************************************************************************)
Started == 1..Len(calls)

\* call i runs its continuation in this step
Continues(i) == calls[i].pc = "settled" /\ calls'[i].pc = "done"

Non2xx(res) == res.kind = "response" /\ (res.status < 200 \/ res.status > 299)

\* the request failed: no response, a non-2xx status, or a body that is no JSON
RequestFailed(res) == res.kind = "reject" \/ Non2xx(res) \/ ~res.body.json

StatusMessage(res) == "HTTP " \o ToString(res.status)

(***************************************************************************)
(* C1                                                                      *)
(***************************************************************************)
\* C1, as stated: for every non-2xx response apiFetch fails, never resolves,
\* and the error's message is the body's detail, or the HTTP status text when
\* the body carries no detail.
C1_DetailOrStatusText ==
    \A i \in Started :
        (calls[i].pc = "settled" /\ Non2xx(calls[i].res)) =>
            LET res == calls[i].res
                d   == IF res.body.json THEN Get(res.body.v, "detail") ELSE Undefined
            IN  /\ ~calls[i].out.ok
                /\ calls[i].out.message =
                       (IF d # Undefined THEN ToStr(d) ELSE res.statusText)

\* C1, amended: for every non-2xx response apiFetch fails and never resolves.
\* The message is the body's detail when the body is JSON carrying a truthy
\* detail; the HTTP status text when the body is no JSON and the status text
\* is not empty; and "HTTP <status>" when the body is a JSON object without a
\* truthy detail, or is no JSON and the status text is empty.
C1_DetailStatusTextOrStatus ==
    \A i \in Started :
        (calls[i].pc = "settled" /\ Non2xx(calls[i].res)) =>
            LET res == calls[i].res
            IN  /\ ~calls[i].out.ok
                /\ calls[i].out.message =
                       (IF res.body.json
                        THEN IF Truthy(Get(res.body.v, "detail"))
                             THEN ToStr(Get(res.body.v, "detail"))
                             ELSE StatusMessage(res)
                        ELSE IF res.statusText # "" THEN res.statusText
                             ELSE StatusMessage(res))

\* a 502 whose body is no JSON has failed with its status text
C1_Witness ==
    \E i \in Started :
        /\ calls[i].pc = "settled"
        /\ Non2xx(calls[i].res)
        /\ ~calls[i].res.body.json
        /\ ~calls[i].out.ok
        /\ calls[i].out.message = "Bad Gateway"

(***************************************************************************)
(* C2                                                                      *)
(***************************************************************************)
\* C2: a call of analyze or fetchGraph whose request fails does not reject,
\* returns null, sets error to the failure's message exactly once and leaves
\* data (graphData) as it was.
C2_FailureYieldsSingleError ==
    [][\A i \in Started :
          (Continues(i) /\ RequestFailed(calls[i].res)) =>
              LET h == calls[i].hook
              IN  /\ ~calls[i].out.ok
                  /\ ~calls'[i].threw
                  /\ calls'[i].ret = Null
                  /\ calls'[i].errorSets = 1
                  /\ error'[h] = Str(calls[i].out.message)
                  /\ data'[h] = data[h]]_vars

\* a failed call has returned null with the error set, and the result of an
\* earlier call is still in data
C2_Witness ==
    \E i \in Started :
        /\ calls[i].pc = "done"
        /\ ~calls[i].out.ok
        /\ calls[i].ret = Null
        /\ calls[i].errorSets = 1
        /\ error[calls[i].hook] = Str(calls[i].out.message)
        /\ data[calls[i].hook] # Null

(***************************************************************************)
(* C3                                                                      *)
(***************************************************************************)
EmptyDescription(i) == calls[i].hook = "useAnalyze" /\ calls[i].args[1] = Str("")

C4_DefaultState ==
    \A i \in Started :
        (calls[i].hook = "useAnalyze" /\ calls[i].pc # "done") =>
            LET a == calls[i].args
                b == ResJson(calls[i].req.body)
            IN  /\ calls[i].req.method = "POST"
                /\ calls[i].req.path = <<"/analyze">>
                /\ b.ok
                /\ Get(b.value, "case_description") = a[1]
                /\ Get(b.value, "state") =
                       (IF a[2] = Undefined THEN Str("All India") ELSE a[2])
                /\ Get(b.value, "category") =
                       (IF a[3] = Undefined THEN Null ELSE a[3])

\* analyze(d) is in flight with state "All India" and category null in its body
C4_Witness ==
    \E i \in Started :
        /\ calls[i].hook = "useAnalyze"
        /\ calls[i].pc = "fetching"
        /\ calls[i].args[2] = Undefined
        /\ calls[i].args[3] = Undefined
        /\ Get(calls[i].req.body.v, "state") = Str("All India")
        /\ Get(calls[i].req.body.v, "category") = Null

(***************************************************************************)
(* C5                                                                      *)
(***************************************************************************)
\* C5: what a call returns and the hook state seen when it completes depend
\* on that call alone: a call that succeeded leaves data = its result, error
\* = null and loading = false; a call that failed leaves error = its message
\* and loading = false, whatever other calls are in flight or have completed
\* meanwhile.
C5_CallsIndependent ==
    [][\A i \in Started :
          Continues(i) =>
              LET h == calls[i].hook
                  o == calls[i].out
              IN  IF o.ok
                  THEN /\ calls'[i].ret = o.value
                       /\ data'[h] = o.value
                       /\ error'[h] = Null
                       /\ loading'[h] = FALSE
                  ELSE /\ calls'[i].ret = Null
                       /\ error'[h] = Str(o.message)
                       /\ loading'[h] = FALSE]_vars

(***************************************************************************)
(* C6                                                                      *)
(***************************************************************************)
\* confidence_score is in [0,1] (0..100 hundredths) and the steps of
\* reasoning_trace are 1..N in order
WellFormedResult(x) ==
    /\ x.t = "object"
    /\ LET conf  == Get(x, "confidence_score")
           trace == Get(x, "reasoning_trace")
       IN  /\ conf.t = "number"
           /\ conf.v \in 0..100
           /\ trace.t = "array"
           /\ \A k \in 1..Len(trace.v) : Get(trace.v[k], "step") = Num(k)

C7_LoadingMirrorsRequest ==
    /\ [][Len(calls') = Len(calls) + 1 =>
              loading'[calls'[Len(calls')].hook] = TRUE]_vars
    /\ [][\A i \in Started : Continues(i) => loading'[calls[i].hook] = FALSE]_vars
    /\ \A i \in 1..MaxCalls :
           (i <= Len(calls) /\ calls[i].pc = "settled")
               ~> (i <= Len(calls) /\ calls[i].pc = "done")
    /\ [](\A h \in Hooks :
              (\A i \in Started : calls[i].hook = h => calls[i].pc = "done")
                  => loading[h] = FALSE)

\* a call whose request failed has completed and loading is false again
C7_Witness ==
    \E i \in Started :
        /\ calls[i].pc = "done"
        /\ ~calls[i].out.ok
        /\ loading[calls[i].hook] = FALSE

(***************************************************************************)
(* C8                                                                      *)
(***************************************************************************)
\* C8: loading is true whenever a request started on the hook has not settled.
C8_LoadingWhileInFlight ==
    \A i \in Started : calls[i].pc = "fetching" => loading[calls[i].hook] = TRUE

(***************************************************************************)
(* C9                                                                      *)
(***************************************************************************)
\* the call of hook h that was started last
LastStarted(h) ==
    CHOOSE i \in Started :
        /\ calls[i].hook = h
        /\ \A j \in Started : calls[j].hook = h => j <= i

\* C9: once all calls of a hook have completed (and no reset came after the
\* last one started), the hook shows the call started last: its result in
\* data with error null, or its message in error.
C9_LastStartedWins ==
    \A h \in Hooks :
        (/\ \E i \in Started : calls[i].hook = h
         /\ \A i \in Started : calls[i].hook = h => calls[i].pc = "done"
         /\ ~(h = "useAnalyze" /\ afterReset)) =>
            LET o == calls[LastStarted(h)].out
            IN  IF o.ok THEN data[h] = o.value /\ error[h] = Null
                ELSE error[h] = Str(o.message)

(***************************************************************************)
(* C10                                                                     *)
(***************************************************************************)
\* C10: reset sets data and error to null and leaves loading as it is, and
\* data and error stay null until the next analyze is started.
C10_ResetHolds ==
    afterReset => (data["useAnalyze"] = Null /\ error["useAnalyze"] = Null)

====
